---------------------------- MODULE Spec2Model ----------------------------
(***************************************************************************)
(* A model of oniongen-go (src/main.go): the coordinator (main), the       *)
(* generateBatch workers, the save goroutines, the goroutine that prints   *)
(* found addresses and printStats, together with the pure functions        *)
(* encodePublicKey and expandSecretKey.                                    *)
(*                                                                         *)
(* Bytes are the integers 0..255, byte strings are sequences of bytes and  *)
(* text is a sequence of one-character strings.                            *)
(***************************************************************************)
EXTENDS Integers, Sequences, FiniteSets, Bags, TLC

(***************************************************************************)
(* Sizes.                                                                  *)
(***************************************************************************)
\* len of an ed25519.PublicKey and of the seed half of an ed25519.PrivateKey
PublicKeySize == 32
SeedSize == 32

\* main.go:26 sets batchSize = 10000; the model runs the same loops with a
\* batch of this many keys.
batchSize == 1

\* runtime.NumCPU() is drawn from 1..MaxCPU.
MaxCPU == 2

\* Workers loop forever; the model stops generating after this many batches
\* in total.
MaxBatches == 2

\* At most this many runs of save meet a filesystem error.
MaxFsErrors == 1

(***************************************************************************)
(* Bytes.                                                                  *)
(***************************************************************************)
Byte == 0..255

RECURSIVE And(_, _)
\* x & y on non-negative integers
And(x, y) ==
    IF x = 0 \/ y = 0 THEN 0
    ELSE (IF x % 2 = 1 /\ y % 2 = 1 THEN 1 ELSE 0) + 2 * And(x \div 2, y \div 2)

RECURSIVE Or(_, _)
\* x | y on non-negative integers
Or(x, y) ==
    IF x = 0 THEN y
    ELSE IF y = 0 THEN x
    ELSE (IF x % 2 = 1 \/ y % 2 = 1 THEN 1 ELSE 0) + 2 * Or(x \div 2, y \div 2)

\* []byte("...") of an ASCII literal, given as the literal's character codes
OnionChecksumLiteral ==
    <<46, 111, 110, 105, 111, 110, 32, 99, 104, 101, 99, 107, 115, 117, 109>>

RECURSIVE SumRange(_, _, _, _)
\* the weighted sum of data[lo..hi], byte n with weight k + n - 1, modulo 65521
SumRange(data, lo, hi, k) ==
    IF lo > hi THEN 0
    ELSE IF lo = hi THEN (data[lo] * (k + lo - 1)) % 65521
    ELSE LET mid == (lo + hi) \div 2
         IN  (SumRange(data, lo, mid, k) + SumRange(data, mid + 1, hi, k)) % 65521

\* the weighted sum of all bytes of data, the first with weight k
SumBytes(data, k) == SumRange(data, 1, Len(data), k)

\* sha3.Sum256: a fixed function from byte strings to 32 bytes (the library's
\* digest is replaced by a deterministic mixing function of the whole input)
Sum256(data) ==
    [n \in 1..32 |-> (SumBytes(data, n) + 31 * n + Len(data)) % 256]

\* sha512.Sum512: a fixed function from byte strings to 64 bytes
Sum512(data) ==
    [n \in 1..64 |-> (SumBytes(data, n + 3) + 17 * n + Len(data)) % 256]

(***************************************************************************)
(* base32.StdEncoding.EncodeToString and strings.ToLower.                  *)
(***************************************************************************)
encodeStd ==
    <<"A", "B", "C", "D", "E", "F", "G", "H", "I", "J", "K", "L", "M",
      "N", "O", "P", "Q", "R", "S", "T", "U", "V", "W", "X", "Y", "Z",
      "2", "3", "4", "5", "6", "7">>

lowerStd ==
    <<"a", "b", "c", "d", "e", "f", "g", "h", "i", "j", "k", "l", "m",
      "n", "o", "p", "q", "r", "s", "t", "u", "v", "w", "x", "y", "z",
      "2", "3", "4", "5", "6", "7">>

\* bit number b (0 = most significant bit of byte 1) of a byte string,
\* 0 past its end
BitAt(data, b) ==
    IF b \div 8 + 1 > Len(data) THEN 0
    ELSE (data[b \div 8 + 1] \div (2 ^ (7 - (b % 8)))) % 2

\* the g-th 5-bit group (g = 0, 1, ...) of a byte string
Quintet(data, g) ==
    16 * BitAt(data, 5 * g) + 8 * BitAt(data, 5 * g + 1)
      + 4 * BitAt(data, 5 * g + 2) + 2 * BitAt(data, 5 * g + 3)
      + BitAt(data, 5 * g + 4)

\* EncodeToString: one character per started 5-bit group, then "=" up to a
\* multiple of 8 characters
EncodeToString(data) ==
    LET nchars == (8 * Len(data) + 4) \div 5
        padded == ((nchars + 7) \div 8) * 8
    IN  [g \in 1..padded |->
            IF g <= nchars THEN encodeStd[Quintet(data, g - 1) + 1] ELSE "="]

\* strings.ToLower on the characters of the encoding
ToLowerChar(c) ==
    IF \E n \in 1..26 : encodeStd[n] = c
    THEN lowerStd[CHOOSE n \in 1..26 : encodeStd[n] = c]
    ELSE c

ToLower(s) == [n \in 1..Len(s) |-> ToLowerChar(s[n])]

(***************************************************************************)
(* encodePublicKey and expandSecretKey.                                    *)
(***************************************************************************)
\* encodePublicKey taking the last two bytes of the digest as the checksum
encodePublicKeyChecksumTail(publicKey, buffer) ==
    LET b1 == buffer \o OnionChecksumLiteral
        b2 == b1 \o publicKey
        b3 == Append(b2, 3)
        checksum == Sum256(b3)
        b4 == <<>>
        b5 == b4 \o publicKey
        b6 == b5 \o SubSeq(checksum, 31, 32)
        b7 == Append(b6, 3)
    IN  [ret |-> ToLower(EncodeToString(b7)), buffer |-> b7]

\* encodePublicKey(publicKey, buffer): buffer is the content of the scratch
\* bytes.Buffer on entry; ret is the returned string, buffer the content of
\* the scratch buffer on return
encodePublicKey(publicKey, buffer) ==
    LET b1 == buffer \o OnionChecksumLiteral   \* buffer.Write(".onion checksum")
        b2 == b1 \o publicKey                  \* buffer.Write(publicKey)
        b3 == Append(b2, 3)                    \* buffer.WriteByte(0x03)
        checksum == Sum256(b3)
        b4 == <<>>                             \* buffer.Reset()
        b5 == b4 \o publicKey
        b6 == b5 \o SubSeq(checksum, 1, 2)     \* checksum[:2]
        b7 == Append(b6, 3)
    IN  [ret |-> ToLower(EncodeToString(b7)), buffer |-> b7]

\* expandSecretKey without hash[31] |= 64
expandSecretKeyNoSet(secretKey) ==
    LET hash == Sum512(SubSeq(secretKey, 1, SeedSize))
        h1 == [hash EXCEPT ![1] = And(hash[1], 248)]
        h2 == [h1 EXCEPT ![32] = And(h1[32], 127)]
    IN  h2

\* expandSecretKey(secretKey)
expandSecretKey(secretKey) ==
    LET hash == Sum512(SubSeq(secretKey, 1, SeedSize))
        h1 == [hash EXCEPT ![1] = And(hash[1], 248)]
        h2 == [h1 EXCEPT ![32] = And(h1[32], 127)]
        h3 == [h2 EXCEPT ![32] = Or(h2[32], 64)]
    IN  h3

(***************************************************************************)
(* ed25519.GenerateKey(nil).                                               *)
(***************************************************************************)
\* the seeds the random source can deliver
Seeds == { [n \in 1..SeedSize |-> 0], [n \in 1..SeedSize |-> 2] }

\* the public key of a seed: a fixed injective function (the curve
\* multiplication of the library is replaced by a bytewise bijection)
PublicFromSeed(seed) ==
    [n \in 1..PublicKeySize |-> (seed[n] * 5 + n - 1) % 256]

\* the key pairs GenerateKey can return: priv = seed || pub
KeyPairs ==
    { [pub |-> PublicFromSeed(s), priv |-> s \o PublicFromSeed(s)] : s \in Seeds }

\* encodePublicKey on an empty buffer and expandSecretKey, tabulated over the
\* keys GenerateKey can return
encodeTable == [pk \in { k.pub : k \in KeyPairs } |-> encodePublicKey(pk, <<>>)]

expandTable == [sk \in { k.priv : k \in KeyPairs } |-> expandSecretKey(sk)]

\* the addresses of the key pairs
Addresses == { encodeTable[k.pub].ret : k \in KeyPairs }

(***************************************************************************)
(* The command line: strconv.Atoi and regexp.Compile on the argument       *)
(* strings the model draws from, and Regexp.MatchString.                   *)
(***************************************************************************)
\* strconv.Atoi: the numerals among the argument strings and their values
NumeralValue == [s \in {"2", "0"} |-> IF s = "2" THEN 2 ELSE 0]

Atoi(s) ==
    IF s \in DOMAIN NumeralValue
    THEN [n |-> NumeralValue[s], err |-> FALSE]
    ELSE [n |-> 0, err |-> TRUE]

\* regexp.Compile: a compiled pattern is a literal, anchored at the start of
\* the text or not; "[" does not compile
Compile(s) ==
    CASE s = "[" -> [err |-> TRUE, re |-> [anchored |-> FALSE, lit |-> <<>>]]
      [] s = ".*" -> [err |-> FALSE, re |-> [anchored |-> FALSE, lit |-> <<>>]]
      [] s = "^a" -> [err |-> FALSE, re |-> [anchored |-> TRUE, lit |-> <<"a">>]]
      [] OTHER -> [err |-> FALSE, re |-> [anchored |-> FALSE, lit |-> <<s>>]]

\* does lit occur in text at position p
OccursAt(lit, text, p) ==
    /\ p + Len(lit) - 1 <= Len(text)
    /\ \A n \in 1..Len(lit) : text[p + n - 1] = lit[n]

\* re.MatchString(text): containment unless the pattern is anchored
MatchString(re, text) ==
    IF re.anchored THEN OccursAt(re.lit, text, 1)
    ELSE \E p \in 1..(Len(text) + 1) : OccursAt(re.lit, text, p)

\* the command lines (os.Args, program name first) the model starts from
ArgLists ==
    { <<"oniongen">>,
      <<"oniongen", "[">>,
      <<"oniongen", "2">>,
      <<"oniongen", "^a", ".*">>,
      <<"oniongen", "^a", "2">>,
      <<"oniongen", ".*", "[">>,
      <<"oniongen", "[", ".*">> }

(***************************************************************************)
(* The filesystem below the working directory: one entry per directory     *)
(* name, with the files the program writes.                                *)
(***************************************************************************)
FileNames == {"hs_ed25519_secret_key", "hs_ed25519_public_key", "hostname"}

NoFile == [present |-> FALSE, perm |-> 0, data |-> <<>>]

NoDir == [exists |-> FALSE, perm |-> 0, files |-> [f \in FileNames |-> NoFile]]

\* a directory of that name that exists before the run (modes 0755 and 0644),
\* holding a hostname file with other content
StaleDir ==
    [exists |-> TRUE, perm |-> 493,
     files |-> [f \in FileNames |->
                  IF f = "hostname"
                  THEN [present |-> TRUE, perm |-> 420,
                        data |-> <<115, 116, 97, 108, 101, 46, 111, 110, 105, 111, 110, 10>>]
                  ELSE NoFile]]

\* os.MkdirAll(path, perm): an existing directory is left as it is
MkdirAll(f, path, perm, outcome) ==
    IF outcome = "ok" /\ ~f[path].exists
    THEN [f EXCEPT ![path].exists = TRUE, ![path].perm = perm]
    ELSE f

\* WriteFile opening with O_APPEND in place of O_TRUNC
WriteFileAppend(f, path, name, data, perm, outcome) ==
    LET old == f[path].files[name]
        p == IF old.present THEN old.perm ELSE perm
    IN  CASE outcome = "ok" ->
               [f EXCEPT ![path].files[name] =
                   [present |-> TRUE, perm |-> p, data |-> old.data \o data]]
          [] outcome = "writeErr" ->
               [f EXCEPT ![path].files[name] =
                   [present |-> TRUE, perm |-> p, data |-> old.data]]
          [] OTHER -> f

\* os.WriteFile(path + "/" + name, data, perm): opens with O_WRONLY|O_CREATE|
\* O_TRUNC (perm applies only when the file is created), writes, closes.
\* outcome "openErr": nothing changes; "writeErr": the file is left created
\* and truncated
WriteFile(f, path, name, data, perm, outcome) ==
    LET old == f[path].files[name]
        p == IF old.present THEN old.perm ELSE perm
    IN  CASE outcome = "ok" ->
               [f EXCEPT ![path].files[name] =
                   [present |-> TRUE, perm |-> p, data |-> data]]
          [] outcome = "writeErr" ->
               [f EXCEPT ![path].files[name] =
                   [present |-> TRUE, perm |-> p, data |-> <<>>]]
          [] OTHER -> f

\* []byte(s) for a string over the lowercase base32 alphabet and "="
ByteOfChar(c) ==
    IF c = "=" THEN 61
    ELSE LET n == CHOOSE k \in 1..32 : lowerStd[k] = c
         IN  IF n <= 26 THEN 96 + n ELSE 50 + (n - 27)

BytesOf(text) == [n \in 1..Len(text) |-> ByteOfChar(text[n])]

\* []byte("== ed25519v1-secret: type0 ==\x00\x00\x00")
SecretKeyHeader ==
    <<61, 61, 32, 101, 100, 50, 53, 53, 49, 57, 118, 49, 45, 115, 101, 99, 114,
      101, 116, 58, 32, 116, 121, 112, 101, 48, 32, 61, 61, 0, 0, 0>>

\* []byte("== ed25519v1-public: type0 ==\x00\x00\x00")
PublicKeyHeader ==
    <<61, 61, 32, 101, 100, 50, 53, 53, 49, 57, 118, 49, 45, 112, 117, 98, 108,
      105, 99, 58, 32, 116, 121, 112, 101, 48, 32, 61, 61, 0, 0, 0>>

\* []byte(".onion\n")
OnionSuffix == <<46, 111, 110, 105, 111, 110, 10>>

\* the working directory at start: no directory for the addresses that begin
\* with "a", an existing directory for the others
InitialFilesystem ==
    [a \in Addresses |-> IF a[1] = "a" THEN NoDir ELSE StaleDir]

(***************************************************************************)
(* State.                                                                  *)
(***************************************************************************)
VARIABLES
    osArgs,        \* os.Args
    numCPU,        \* runtime.NumCPU()
    status,        \* "running", "exit0" (main returned), "exit1" (os.Exit(1)), "panic"
    mainpc,        \* position of main
    argi,          \* main's loop variable i
    regexps,       \* main's regexps
    numAddresses,  \* main's numAddresses
    wg,            \* counter of main's wg
    saveWg,        \* counter of main's saveWg
    resultChan,    \* buf: queued addresses, cap: capacity, closed
    found,         \* package variable found
    generated,     \* package variable generated
    workers,       \* the generateBatch goroutines
    saves,         \* the save goroutines, in the order they were started
    fs,            \* the filesystem
    printer,       \* the goroutine that prints found addresses
    stdout,        \* the lines printed, as a bag (progress lines are not kept)
    stats,         \* the printStats goroutine
    published,     \* number of completed sends on resultChan
    encCall,       \* the last call of encodePublicKey made on its own
    expCall        \* the last call of expandSecretKey made on its own

vars ==
    <<osArgs, numCPU, status, mainpc, argi, regexps, numAddresses, wg, saveWg,
      resultChan, found, generated, workers, saves, fs, printer, stdout,
      stats, published, encCall, expCall>>

Workers == 1..MaxCPU

\* a goroutine slot before its go statement
NoWorker ==
    [pc |-> "none", buffer |-> <<>>, batch |-> <<>>, batchSecretKeys |-> <<>>,
     i |-> 0, j |-> 0, onionAddress |-> <<>>,
     \* history: what the worker did for the key at i, and its sends for
     \* the keys of the batch
     sends |-> 0, dispatches |-> 0, incs |-> 0, dones |-> 0, batchSends |-> 0]

Line(kind, text) == [kind |-> kind, text |-> text]

\* the output with one more line (the output is kept as a bag of lines: the
\* order of lines of different goroutines is arbitrary)
Emit(out, line) == out (+) SetToBag({line})

\* no call of encodePublicKey made yet; buffer is the scratch buffer
NoEncodeCall ==
    [publicKey |-> <<>>, entry |-> <<>>, ret |-> <<>>, buffer |-> <<>>, calls |-> 0]

\* no call of expandSecretKey made yet
NoExpandCall == [secretKey |-> <<>>, ret |-> <<>>, calls |-> 0]

Init ==
    /\ encCall = NoEncodeCall
    /\ expCall = NoExpandCall
    /\ osArgs \in ArgLists
    /\ numCPU \in 1..MaxCPU
    /\ fs = InitialFilesystem
    /\ status = "running"
    /\ mainpc = "checkArgs"
    /\ argi = 0
    /\ regexps = <<>>
    /\ numAddresses = 1
    /\ wg = 0
    /\ saveWg = 0
    /\ resultChan = [buf |-> <<>>, cap |-> 0, closed |-> FALSE]
    /\ found = 0
    /\ generated = 0
    /\ workers = [w \in Workers |-> NoWorker]
    /\ saves = <<>>
    /\ printer = [pc |-> "none", address |-> <<>>]
    /\ stdout = EmptyBag
    /\ stats = [pc |-> "none"]
    /\ published = 0

(***************************************************************************)
(* main.                                                                   *)
(***************************************************************************)
\* len(os.Args) < 2: usage and os.Exit(1)
MainCheckArgs ==
    /\ status = "running" /\ mainpc = "checkArgs"
    /\ IF Len(osArgs) < 2
       THEN /\ stdout' = Emit(stdout, Line("usage", <<>>))
            /\ status' = "exit1"
            /\ UNCHANGED <<mainpc, argi>>
       ELSE /\ mainpc' = "parse"
            /\ argi' = 1
            /\ UNCHANGED <<stdout, status>>
    /\ UNCHANGED <<encCall, expCall, osArgs, numCPU, regexps, numAddresses, wg, saveWg, resultChan,
                   found, generated, workers, saves, fs, printer, stats, published>>

\* MainParseArg skipping a pattern that does not compile in place of exiting
MainParseArgSkipInvalid ==
    /\ status = "running" /\ mainpc = "parse"
    /\ IF argi < Len(osArgs)
       THEN LET arg == osArgs[argi + 1]
                last == (argi = Len(osArgs) - 1)
                num == Atoi(arg)
                c == Compile(arg)
            IN  /\ numAddresses' = IF last THEN num.n ELSE numAddresses
                /\ IF last /\ ~num.err
                   THEN /\ mainpc' = "checkRegexps"
                        /\ UNCHANGED <<regexps, argi, stdout, status>>
                   ELSE IF c.err
                   THEN /\ stdout' = Emit(stdout, Line("invalid regex", <<arg>>))
                        /\ argi' = argi + 1
                        /\ UNCHANGED <<regexps, status, mainpc>>
                   ELSE /\ regexps' = Append(regexps, c.re)
                        /\ argi' = argi + 1
                        /\ UNCHANGED <<mainpc, stdout, status>>
       ELSE /\ mainpc' = "checkRegexps"
            /\ UNCHANGED <<regexps, argi, stdout, status, numAddresses>>
    /\ UNCHANGED <<encCall, expCall, osArgs, numCPU, wg, saveWg, resultChan, found, generated,
                   workers, saves, fs, printer, stats, published>>

\* one iteration of the loop over os.Args[1:] (os.Args[i] is osArgs[i + 1])
MainParseArg ==
    /\ status = "running" /\ mainpc = "parse"
    /\ IF argi < Len(osArgs)
       THEN LET arg == osArgs[argi + 1]
                last == (argi = Len(osArgs) - 1)
                num == Atoi(arg)
                c == Compile(arg)
            IN  /\ numAddresses' = IF last THEN num.n ELSE numAddresses
                /\ IF last /\ ~num.err
                   THEN /\ mainpc' = "checkRegexps"
                        /\ UNCHANGED <<regexps, argi, stdout, status>>
                   ELSE IF c.err
                   THEN /\ stdout' = Emit(stdout, Line("invalid regex", <<arg>>))
                        /\ status' = "exit1"
                        /\ UNCHANGED <<regexps, argi, mainpc>>
                   ELSE /\ regexps' = Append(regexps, c.re)
                        /\ argi' = argi + 1
                        /\ UNCHANGED <<mainpc, stdout, status>>
       ELSE /\ mainpc' = "checkRegexps"
            /\ UNCHANGED <<regexps, argi, stdout, status, numAddresses>>
    /\ UNCHANGED <<encCall, expCall, osArgs, numCPU, wg, saveWg, resultChan, found, generated,
                   workers, saves, fs, printer, stats, published>>

\* len(regexps) == 0: message and os.Exit(1)
MainCheckRegexps ==
    /\ status = "running" /\ mainpc = "checkRegexps"
    /\ IF Len(regexps) = 0
       THEN /\ stdout' = Emit(stdout, Line("no regex", <<>>))
            /\ status' = "exit1"
            /\ UNCHANGED mainpc
       ELSE /\ mainpc' = "setup"
            /\ UNCHANGED <<stdout, status>>
    /\ UNCHANGED <<encCall, expCall, osArgs, numCPU, argi, regexps, numAddresses, wg, saveWg,
                   resultChan, found, generated, workers, saves, fs, printer,
                   stats, published>>

\* numAddresses < 1 becomes 1; wg.Add(numAddresses); make(chan string, numAddresses)
MainSetup ==
    /\ status = "running" /\ mainpc = "setup"
    /\ LET n == IF numAddresses < 1 THEN 1 ELSE numAddresses
       IN  /\ numAddresses' = n
           /\ wg' = wg + n
           /\ resultChan' = [buf |-> <<>>, cap |-> n, closed |-> FALSE]
    /\ mainpc' = "goStats"
    /\ argi' = 0
    /\ UNCHANGED <<encCall, expCall, osArgs, numCPU, status, regexps, saveWg, found, generated,
                   workers, saves, fs, printer, stdout, stats, published>>

\* go printStats(time.Now())
MainGoStats ==
    /\ status = "running" /\ mainpc = "goStats"
    /\ stats' = [stats EXCEPT !.pc = "tick"]
    /\ mainpc' = "spawn"
    /\ UNCHANGED <<encCall, expCall, osArgs, numCPU, status, argi, regexps, numAddresses, wg, saveWg,
                   resultChan, found, generated, workers, saves, fs, printer,
                   stdout, published>>

\* the loop over numCPU: go generateBatch(...), one per iteration; then the
\* goroutine that prints found addresses is started
MainSpawn ==
    /\ status = "running" /\ mainpc = "spawn"
    /\ IF argi < numCPU
       THEN /\ workers' = [workers EXCEPT ![argi + 1].pc = "gen"]
            /\ argi' = argi + 1
            /\ UNCHANGED <<mainpc, printer>>
       ELSE /\ printer' = [printer EXCEPT !.pc = "recv"]
            /\ mainpc' = "wgWait"
            /\ UNCHANGED <<workers, argi>>
    /\ UNCHANGED <<encCall, expCall, osArgs, numCPU, status, regexps, numAddresses, wg, saveWg,
                   resultChan, found, generated, saves, fs, stdout, stats, published>>

\* wg.Wait(): returns at once when the counter is 0, else main sleeps until
\* the Done that brings the counter to 0 wakes it
MainWgWait ==
    /\ status = "running" /\ mainpc = "wgWait"
    /\ mainpc' = IF wg = 0 THEN "close" ELSE "wgBlocked"
    /\ UNCHANGED <<encCall, expCall, osArgs, numCPU, status, argi, regexps, numAddresses, wg, saveWg,
                   resultChan, found, generated, workers, saves, fs, printer,
                   stdout, stats, published>>

\* main woken in wg.Wait(): Wait panics ("WaitGroup is reused before previous
\* Wait has returned") when the counter is no longer 0
MainWgWoken ==
    /\ status = "running" /\ mainpc = "wgWoken"
    /\ IF wg = 0
       THEN mainpc' = "close" /\ UNCHANGED status
       ELSE status' = "panic" /\ UNCHANGED mainpc
    /\ UNCHANGED <<encCall, expCall, osArgs, numCPU, argi, regexps, numAddresses, wg, saveWg,
                   resultChan, found, generated, workers, saves, fs, printer,
                   stdout, stats, published>>

\* close(resultChan)
MainClose ==
    /\ status = "running" /\ mainpc = "close"
    /\ resultChan' = [resultChan EXCEPT !.closed = TRUE]
    /\ mainpc' = "saveWait"
    /\ UNCHANGED <<encCall, expCall, osArgs, numCPU, status, argi, regexps, numAddresses, wg, saveWg,
                   found, generated, workers, saves, fs, printer, stdout, stats, published>>

\* saveWg.Wait()
MainSaveWait ==
    /\ status = "running" /\ mainpc = "saveWait"
    /\ mainpc' = IF saveWg = 0 THEN "return" ELSE "saveBlocked"
    /\ UNCHANGED <<encCall, expCall, osArgs, numCPU, status, argi, regexps, numAddresses, wg, saveWg,
                   resultChan, found, generated, workers, saves, fs, printer,
                   stdout, stats, published>>

\* main woken in saveWg.Wait()
MainSaveWoken ==
    /\ status = "running" /\ mainpc = "saveWoken"
    /\ IF saveWg = 0
       THEN mainpc' = "return" /\ UNCHANGED status
       ELSE status' = "panic" /\ UNCHANGED mainpc
    /\ UNCHANGED <<encCall, expCall, osArgs, numCPU, argi, regexps, numAddresses, wg, saveWg,
                   resultChan, found, generated, workers, saves, fs, printer,
                   stdout, stats, published>>

\* main returns: the process exits and every goroutine stops where it is
MainReturn ==
    /\ status = "running" /\ mainpc = "return"
    /\ status' = "exit0"
    /\ UNCHANGED <<encCall, expCall, osArgs, numCPU, mainpc, argi, regexps, numAddresses, wg, saveWg,
                   resultChan, found, generated, workers, saves, fs, printer,
                   stdout, stats, published>>

(***************************************************************************)
(* generateBatch.                                                          *)
(***************************************************************************)
\* MatchSteps with wg.Done() before atomic.AddInt64(&found, 1)
MatchStepsDoneFirst == <<"send", "goSave", "done", "found">>

\* the statements run for a key whose address matches, in their order:
\* resultChan <- onionAddress; saveWg.Add(1) and go save(...);
\* atomic.AddInt64(&found, 1); wg.Done(); then break
\* MatchSteps with found counted before the address is sent
MatchStepsFoundFirst == <<"found", "send", "goSave", "done">>

\* MatchSteps with the save started after wg.Done()
MatchStepsSaveLast == <<"send", "found", "done", "goSave">>

MatchSteps == <<"send", "goSave", "found", "done">>

RECURSIVE FirstMatch(_, _, _)
\* for _, re := range regexps { if re.MatchString(onionAddress) {...} }:
\* the index (from 1) of the first pattern at or after from that matches, 0 if
\* none does
FirstMatch(res, text, from) ==
    IF from > Len(res) THEN 0
    ELSE IF MatchString(res[from], text) THEN from
    ELSE FirstMatch(res, text, from + 1)

RECURSIVE CheckKeys(_)
\* the loop over batch from key wk.i on, up to the first statement that
\* touches shared state: for each key buffer.Reset(), encodePublicKey and the
\* loop over regexps; a key that matches pattern j leaves the worker at the
\* first of MatchSteps, the end of the batch at the next generation
CheckKeys(wk) ==
    IF wk.i >= Len(wk.batch)
    THEN [wk EXCEPT !.pc = "gen"]
    ELSE LET enc == encodeTable[wk.batch[wk.i + 1]]
             m == FirstMatch(regexps, enc.ret, 1)
             fresh == [wk EXCEPT !.buffer = enc.buffer,
                                 !.onionAddress = enc.ret,
                                 !.sends = 0, !.dispatches = 0,
                                 !.incs = 0, !.dones = 0]
         IN  IF m = 0
             THEN CheckKeys([fresh EXCEPT !.i = wk.i + 1, !.j = 0])
             ELSE [fresh EXCEPT !.j = m, !.pc = MatchSteps[1]]

\* AfterStep without the break: after the last statement the loop over regexps
\* goes on with the patterns after j
AfterStepNoBreak(wk) ==
    LET n == CHOOSE k \in 1..Len(MatchSteps) : MatchSteps[k] = wk.pc
        m == FirstMatch(regexps, wk.onionAddress, wk.j + 1)
    IN  IF n < Len(MatchSteps)
        THEN [wk EXCEPT !.pc = MatchSteps[n + 1]]
        ELSE IF m = 0
        THEN CheckKeys([wk EXCEPT !.i = wk.i + 1, !.j = 0])
        ELSE [wk EXCEPT !.j = m, !.pc = MatchSteps[1]]

\* where a worker is after the statement wk.pc: at the next statement, or,
\* after the last one (break), in the loop over batch at the next key
AfterStep(wk) ==
    LET n == CHOOSE k \in 1..Len(MatchSteps) : MatchSteps[k] = wk.pc
    IN  IF n < Len(MatchSteps)
        THEN [wk EXCEPT !.pc = MatchSteps[n + 1]]
        ELSE CheckKeys([wk EXCEPT !.i = wk.i + 1, !.j = 0])

\* the key generation loop and atomic.AddInt64(&generated, batchSize), then
\* the loop over batch up to the first match
WorkerGenerate(w) ==
    /\ status = "running" /\ workers[w].pc = "gen"
    /\ generated < MaxBatches * batchSize
    /\ \E keys \in [1..batchSize -> KeyPairs] :
          workers' = [workers EXCEPT ![w] =
              CheckKeys([@ EXCEPT !.i = 0, !.j = 0, !.batchSends = 0,
                           !.batch = [n \in 1..batchSize |-> keys[n].pub],
                           !.batchSecretKeys = [n \in 1..batchSize |-> keys[n].priv]])]
    /\ generated' = generated + batchSize
    /\ UNCHANGED <<encCall, expCall, osArgs, numCPU, status, mainpc, argi, regexps, numAddresses, wg,
                   saveWg, resultChan, found, saves, fs, printer, stdout, stats, published>>

\* WorkerSend as a select with a default case: a full buffer drops the address
WorkerSendDrop(w) ==
    /\ status = "running" /\ workers[w].pc = "send"
    /\ IF resultChan.closed
       THEN /\ status' = "panic"
            /\ UNCHANGED <<resultChan, workers, published>>
       ELSE IF Len(resultChan.buf) < resultChan.cap
       THEN /\ resultChan' = [resultChan EXCEPT
                                !.buf = Append(@, workers[w].onionAddress)]
            /\ published' = published + 1
            /\ workers' = [workers EXCEPT ![w] =
                              AfterStep([@ EXCEPT !.sends = @ + 1,
                                                  !.batchSends = @ + 1])]
            /\ UNCHANGED status
       ELSE /\ workers' = [workers EXCEPT ![w] = AfterStep(@)]
            /\ UNCHANGED <<status, resultChan, published>>
    /\ UNCHANGED <<encCall, expCall, osArgs, stats, numCPU, mainpc, argi, regexps, numAddresses, wg, saveWg,
                   found, generated, saves, fs, printer, stdout>>

\* resultChan <- onionAddress: panics when the channel is closed, blocks while
\* the buffer is full
WorkerSend(w) ==
    /\ status = "running" /\ workers[w].pc = "send"
    /\ IF resultChan.closed
       THEN /\ status' = "panic"
            /\ UNCHANGED <<resultChan, workers, stats, published>>
       ELSE /\ Len(resultChan.buf) < resultChan.cap
            /\ resultChan' = [resultChan EXCEPT
                                !.buf = Append(@, workers[w].onionAddress)]
            /\ published' = published + 1
            /\ workers' = [workers EXCEPT ![w] =
                              AfterStep([@ EXCEPT !.sends = @ + 1,
                                                  !.batchSends = @ + 1])]
            /\ UNCHANGED status
    /\ UNCHANGED <<encCall, expCall, osArgs, stats, numCPU, mainpc, argi, regexps, numAddresses, wg, saveWg,
                   found, generated, saves, fs, printer, stdout>>

\* saveWg.Add(1); go save(onionAddress, publicKey,
\* expandSecretKey(batchSecretKeys[i]), saveWg)
WorkerGoSave(w) ==
    /\ status = "running" /\ workers[w].pc = "goSave"
    /\ saveWg' = saveWg + 1
    /\ LET wk == workers[w]
       IN  saves' = Append(saves,
                [pc |-> "started", err |-> "none",
                 onionAddress |-> wk.onionAddress,
                 publicKey |-> wk.batch[wk.i + 1],
                 secretKey |-> expandTable[wk.batchSecretKeys[wk.i + 1]]])
    /\ workers' = [workers EXCEPT ![w] =
                      AfterStep([@ EXCEPT !.dispatches = @ + 1])]
    /\ UNCHANGED <<encCall, expCall, osArgs, numCPU, status, mainpc, argi, regexps, numAddresses, wg,
                   resultChan, found, generated, fs, printer, stdout, stats, published>>

\* atomic.AddInt64(&found, 1)
WorkerFoundInTurn(w) ==
    /\ status = "running" /\ workers[w].pc = "found"
    /\ \A v \in Workers : v < w => workers[v].pc # "done"
    /\ found' = found + 1
    /\ workers' = [workers EXCEPT ![w] = AfterStep([@ EXCEPT !.incs = @ + 1])]
    /\ UNCHANGED <<encCall, expCall, osArgs, numCPU, status, mainpc, argi, regexps, numAddresses, wg,
                   saveWg, resultChan, generated, saves, fs, printer, stdout,
                   stats, published>>

\* atomic.AddInt64(&found, 1)
WorkerFound(w) ==
    /\ status = "running" /\ workers[w].pc = "found"
    /\ found' = found + 1
    /\ workers' = [workers EXCEPT ![w] = AfterStep([@ EXCEPT !.incs = @ + 1])]
    /\ UNCHANGED <<encCall, expCall, osArgs, numCPU, status, mainpc, argi, regexps, numAddresses, wg,
                   saveWg, resultChan, generated, saves, fs, printer, stdout,
                   stats, published>>

\* wg.Done(): subtracts 1 and panics ("sync: negative WaitGroup counter") when
\* the counter is then below 0; the Done
\* that reaches 0 wakes main if it sleeps in wg.Wait()
WorkerDone(w) ==
    /\ status = "running" /\ workers[w].pc = "done"
    /\ IF wg - 1 < 0
       THEN /\ status' = "panic"
            /\ wg' = wg - 1
            /\ UNCHANGED <<workers, mainpc>>
       ELSE /\ wg' = wg - 1
            /\ mainpc' = IF wg - 1 = 0 /\ mainpc = "wgBlocked"
                         THEN "wgWoken" ELSE mainpc
            /\ workers' = [workers EXCEPT ![w] =
                              AfterStep([@ EXCEPT !.dones = @ + 1])]
            /\ UNCHANGED status
    /\ UNCHANGED <<encCall, expCall, osArgs, numCPU, argi, regexps, numAddresses, saveWg, resultChan,
                   found, generated, saves, fs, printer, stdout, stats, published>>

(***************************************************************************)
(* The goroutine that prints found addresses.                              *)
(***************************************************************************)
\* address := range resultChan: the next queued address; the loop ends when
\* the channel is closed and empty
PrinterReceive ==
    /\ status = "running" /\ printer.pc = "recv"
    /\ IF Len(resultChan.buf) > 0
       THEN /\ printer' = [pc |-> "print", address |-> Head(resultChan.buf)]
            /\ resultChan' = [resultChan EXCEPT !.buf = Tail(@)]
       ELSE /\ resultChan.closed
            /\ printer' = [pc |-> "done", address |-> <<>>]
            /\ UNCHANGED resultChan
    /\ UNCHANGED <<encCall, expCall, osArgs, numCPU, status, mainpc, argi, regexps, numAddresses, wg,
                   saveWg, found, generated, workers, saves, fs, stdout, stats, published>>

\* fmt.Println(address)
PrinterPrint ==
    /\ status = "running" /\ printer.pc = "print"
    /\ stdout' = Emit(stdout, Line("address", printer.address))
    /\ printer' = [pc |-> "recv", address |-> <<>>]
    /\ UNCHANGED <<encCall, expCall, osArgs, numCPU, status, mainpc, argi, regexps, numAddresses, wg,
                   saveWg, resultChan, found, generated, workers, saves, fs,
                   stats, published>>

(***************************************************************************)
(* printStats.                                                             *)
(***************************************************************************)
\* PrintStats storing 0 in generated after the progress line
PrintStatsReset ==
    /\ status = "running" /\ stats.pc = "tick"
    /\ stats' = [pc |-> "tick"]
    /\ generated' = 0
    /\ UNCHANGED <<encCall, expCall, osArgs, numCPU, status, mainpc, argi, regexps, numAddresses, wg,
                   saveWg, resultChan, found, workers, saves, fs,
                   printer, stdout, published>>

\* a tick of time.Tick(5 * time.Second): the two atomic loads and the
\* progress line. The line is not kept in stdout (it would grow without
\* bound), so a tick leaves every variable as it is
PrintStats ==
    /\ status = "running" /\ stats.pc = "tick"
    /\ LET currentFound == found
           currentGenerated == generated
       IN  stats' = [pc |-> "tick"]
    /\ UNCHANGED <<encCall, expCall, osArgs, numCPU, status, mainpc, argi, regexps, numAddresses, wg,
                   saveWg, resultChan, found, generated, workers, saves, fs,
                   printer, stdout, published>>

(***************************************************************************)
(* save.                                                                   *)
(***************************************************************************)
SaveIds == 1..Len(saves)

\* the content of the three files
SecretKeyFile(sv) == SecretKeyHeader \o sv.secretKey

PublicKeyFile(sv) == PublicKeyHeader \o sv.publicKey

HostnameFile(sv) == BytesOf(sv.onionAddress) \o OnionSuffix

\* save writing the hostname file before the key files
saveHostnameFirst(f, sv, outcomes) ==
    LET f1 == MkdirAll(f, sv.onionAddress, 448, outcomes[1])
        f2 == WriteFile(f1, sv.onionAddress, "hostname",
                        HostnameFile(sv), 384, outcomes[4])
        f3 == WriteFile(f2, sv.onionAddress, "hs_ed25519_secret_key",
                        SecretKeyFile(sv), 384, outcomes[2])
        f4 == WriteFile(f3, sv.onionAddress, "hs_ed25519_public_key",
                        PublicKeyFile(sv), 384, outcomes[3])
    IN  IF outcomes[1] # "ok"
        THEN [fs |-> f1, err |-> "error creating directory"]
        ELSE IF outcomes[4] # "ok"
        THEN [fs |-> f2, err |-> "error writing hostname file"]
        ELSE IF outcomes[2] # "ok"
        THEN [fs |-> f3, err |-> "error writing secret key file"]
        ELSE IF outcomes[3] # "ok"
        THEN [fs |-> f4, err |-> "error writing public key file"]
        ELSE [fs |-> f4, err |-> "none"]

\* the body of save for the arguments sv on the filesystem f, when its four
\* filesystem calls end as outcomes says: the filesystem it leaves and the
\* error it prints before returning ("none" when every call succeeds)
save(f, sv, outcomes) ==
    LET f1 == MkdirAll(f, sv.onionAddress, 448, outcomes[1])
        f2 == WriteFile(f1, sv.onionAddress, "hs_ed25519_secret_key",
                        SecretKeyFile(sv), 384, outcomes[2])
        f3 == WriteFile(f2, sv.onionAddress, "hs_ed25519_public_key",
                        PublicKeyFile(sv), 384, outcomes[3])
        f4 == WriteFile(f3, sv.onionAddress, "hostname",
                        HostnameFile(sv), 384, outcomes[4])
    IN  IF outcomes[1] # "ok"
        THEN [fs |-> f1, err |-> "error creating directory"]
        ELSE IF outcomes[2] # "ok"
        THEN [fs |-> f2, err |-> "error writing secret key file"]
        ELSE IF outcomes[3] # "ok"
        THEN [fs |-> f3, err |-> "error writing public key file"]
        ELSE IF outcomes[4] # "ok"
        THEN [fs |-> f4, err |-> "error writing hostname file"]
        ELSE [fs |-> f4, err |-> "none"]

\* how the four calls of one run of save can end: all succeed, or one fails
\* and the calls after it are not made
SaveOutcomes ==
    { <<"ok", "ok", "ok", "ok">>, <<"err", "ok", "ok", "ok">> }
      \cup { [n \in 1..4 |-> IF n = k THEN o ELSE "ok"] :
               k \in 2..4, o \in {"openErr", "writeErr"} }

\* SaveSignals with wg.Done() as the last statement of save, not deferred
SaveSignalsOnSuccess(err) == err = "none"

\* does save call wg.Done() (wg is main's saveWg) on a return with this error:
\* the call is deferred, so it does on every return
SaveSignals(err) == TRUE

\* a run of a save goroutine, with its deferred wg.Done(), which wakes main if
\* it sleeps in saveWg.Wait()
Save(id) ==
    /\ status = "running" /\ saves[id].pc = "started"
    /\ \E outcomes \in SaveOutcomes :
          LET r == save(fs, saves[id], outcomes)
          IN  /\ r.err # "none" =>
                   Cardinality({ n \in SaveIds : saves[n].err # "none" }) < MaxFsErrors
              /\ fs' = r.fs
              /\ stdout' = IF r.err = "none" THEN stdout
                           ELSE Emit(stdout, Line(r.err, saves[id].onionAddress))
              /\ saves' = [saves EXCEPT ![id].pc = "returned",
                                        ![id].err = r.err]
              /\ IF SaveSignals(r.err)
                 THEN /\ saveWg' = saveWg - 1
                      /\ mainpc' = IF saveWg - 1 = 0 /\ mainpc = "saveBlocked"
                                   THEN "saveWoken" ELSE mainpc
                 ELSE UNCHANGED <<saveWg, mainpc>>
    /\ UNCHANGED <<encCall, expCall, osArgs, numCPU, status, argi, regexps, numAddresses, wg,
                   resultChan, found, generated, workers, printer, stats, published>>

(***************************************************************************)
(* The system.                                                             *)
(***************************************************************************)
Next ==
    \/ MainCheckArgs
    \/ MainParseArg
    \/ MainCheckRegexps
    \/ MainSetup
    \/ MainGoStats
    \/ MainSpawn
    \/ MainWgWait
    \/ MainWgWoken
    \/ MainClose
    \/ MainSaveWait
    \/ MainSaveWoken
    \/ MainReturn
    \/ \E w \in Workers :
          \/ WorkerGenerate(w)
          \/ WorkerSend(w)
          \/ WorkerGoSave(w)
          \/ WorkerFound(w)
          \/ WorkerDone(w)
    \/ PrintStats
    \/ PrinterReceive
    \/ PrinterPrint
    \/ \E id \in SaveIds : Save(id)

Spec == Init /\ [][Next]_vars

\* the main goroutine
Main ==
    \/ MainCheckArgs \/ MainParseArg \/ MainCheckRegexps \/ MainSetup
    \/ MainGoStats \/ MainSpawn \/ MainWgWait \/ MainWgWoken \/ MainClose
    \/ MainSaveWait \/ MainSaveWoken \/ MainReturn

\* the goroutine that ranges over resultChan and prints
Printer == PrinterReceive \/ PrinterPrint

\* the Go scheduler does not starve a runnable goroutine: main (which starts
\* the consumer) and the consumer keep running while they can
FairSpec == Spec /\ WF_vars(Main) /\ WF_vars(Printer)

(***************************************************************************)
(* encodePublicKey and expandSecretKey on their own: the functions are     *)
(* called on keys and scratch buffers drawn from the sets below, outside   *)
(* any run of main.                                                        *)
(***************************************************************************)
\* a call sequence is followed for this many calls of each function
MaxCalls == 2

\* the 32-byte public keys the calls are made with
PublicKeys ==
    { [n \in 1..PublicKeySize |-> (a * n + b) % 256] :
        a \in {0, 255}, b \in {0, 255} }

\* what the scratch buffer can hold before the first call
ScratchBuffers == { <<>>, <<0>>, OnionChecksumLiteral }

\* the 64-byte private keys the calls are made with: a seed followed by zeros
\* or by other bytes
PrivateKeys ==
    { [n \in 1..SeedSize |-> (b * n) % 256]
        \o [n \in 1..PublicKeySize |-> (t * (5 * b + n)) % 256] :
        b \in {0, 3}, t \in {0, 1} }

PureInit ==
    /\ encCall \in { [NoEncodeCall EXCEPT !.buffer = b] : b \in ScratchBuffers }
    /\ expCall = NoExpandCall
    /\ osArgs = <<"oniongen">>
    /\ numCPU = 1
    /\ fs = InitialFilesystem
    /\ status = "running"
    /\ mainpc = "checkArgs"
    /\ argi = 0
    /\ regexps = <<>>
    /\ numAddresses = 1
    /\ wg = 0
    /\ saveWg = 0
    /\ resultChan = [buf |-> <<>>, cap |-> 0, closed |-> FALSE]
    /\ found = 0
    /\ generated = 0
    /\ workers = [w \in Workers |-> NoWorker]
    /\ saves = <<>>
    /\ printer = [pc |-> "none", address |-> <<>>]
    /\ stdout = EmptyBag
    /\ stats = [pc |-> "none"]
    /\ published = 0

\* onionAddress := encodePublicKey(publicKey, buffer) on the scratch buffer
\* as the last call left it
EncodeCall ==
    /\ encCall.calls < MaxCalls
    /\ \E pk \in PublicKeys :
          LET r == encodePublicKey(pk, encCall.buffer)
          IN  encCall' = [publicKey |-> pk, entry |-> encCall.buffer,
                          ret |-> r.ret, buffer |-> r.buffer,
                          calls |-> encCall.calls + 1]
    /\ UNCHANGED <<expCall, osArgs, numCPU, status, mainpc, argi, regexps,
                   numAddresses, wg, saveWg, resultChan, found, generated,
                   workers, saves, fs, printer, stdout, stats, published>>

\* buffer.Reset() by the caller between two calls
BufferReset ==
    /\ encCall.buffer # <<>>
    /\ encCall' = [encCall EXCEPT !.buffer = <<>>]
    /\ UNCHANGED <<expCall, osArgs, numCPU, status, mainpc, argi, regexps,
                   numAddresses, wg, saveWg, resultChan, found, generated,
                   workers, saves, fs, printer, stdout, stats, published>>

\* expandSecretKey(secretKey)
ExpandCall ==
    /\ expCall.calls < MaxCalls
    /\ \E sk \in PrivateKeys :
          expCall' = [secretKey |-> sk, ret |-> expandSecretKey(sk),
                      calls |-> expCall.calls + 1]
    /\ UNCHANGED <<encCall, osArgs, numCPU, status, mainpc, argi, regexps,
                   numAddresses, wg, saveWg, resultChan, found, generated,
                   workers, saves, fs, printer, stdout, stats, published>>

PureNext == EncodeCall \/ BufferReset \/ ExpandCall

PureSpec == PureInit /\ [][PureNext]_vars

(***************************************************************************)
(* Notions the properties are stated with.                                 *)
(***************************************************************************)
\* main has returned from wg.Wait()
PastWgWait == mainpc \in {"close", "saveWait", "saveBlocked", "saveWoken", "return"}

\* the patterns given on the command line: every argument but a last one that
\* is a number
PatternArgs ==
    LET n == Len(osArgs)
    IN  IF n >= 2 /\ ~Atoi(osArgs[n]).err
        THEN SubSeq(osArgs, 2, n - 1)
        ELSE SubSeq(osArgs, 2, n)

\* some pattern matches the text
MatchesAny(text) == \E n \in 1..Len(regexps) : MatchString(regexps[n], text)

\* the compiled patterns are those of the command line and every address the
\* key generator can produce matches one of them
MatchesEveryAddress ==
    /\ Len(regexps) = Len(PatternArgs)
    /\ \A a \in Addresses : MatchesAny(a)

\* the statements of MatchSteps a worker at pc has already run for its key
StepsDone(pc) ==
    IF \E k \in 1..Len(MatchSteps) : MatchSteps[k] = pc
    THEN { MatchSteps[k] : k \in 1..((CHOOSE k \in 1..Len(MatchSteps) : MatchSteps[k] = pc) - 1) }
    ELSE { MatchSteps[k] : k \in 1..Len(MatchSteps) }

\* the address lines on stdout
AddressLines ==
    [l \in { x \in BagToSet(stdout) : x.kind = "address" } |-> stdout[l]]

\* the save goroutines that have not returned
InFlight == { id \in SaveIds : saves[id].pc # "returned" }

(***************************************************************************)
(* C1: for a target of K matches and patterns that match every address,   *)
(* at the step in which main's wg.Wait() returns exactly K found events    *)
(* have been reported: found = K and K addresses published.                *)
(* The code does not stop the workers at the K-th match, so this fails.    *)
(***************************************************************************)
C1_ExactlyKWhenWaitReturns ==
    [][(mainpc \in {"wgWait", "wgWoken"} /\ mainpc' = "close"
          /\ MatchesEveryAddress)
         => (found' = numAddresses /\ published' = numAddresses)]_vars

(***************************************************************************)
(* C2: when main returns, every match whose address was published has had  *)
(* its save started and run to completion; no save is in flight or not yet *)
(* started.                                                                *)
(* A worker that published after the K-th wg.Done() can be before its      *)
(* saveWg.Add(1) when main's saveWg.Wait() returns, so this fails.         *)
(***************************************************************************)
C2_AllPublishedSavedAtExit ==
    status = "exit0" => (Len(saves) = published /\ InFlight = {})

(***************************************************************************)
(* C3: in every state where main has returned from wg.Wait() (so also when *)
(* the process has exited normally), found >= K.                           *)
(***************************************************************************)
C3_FoundAtLeastK == PastWgWait => found >= numAddresses

C3_Witness == status = "exit0" /\ numAddresses = 2 /\ found = 2

(***************************************************************************)
(* C4: every key whose address matches is sent to the result channel once, *)
(* never twice and never dropped, and a key that does not match is not     *)
(* sent: a worker's sends for its batch are the matching keys it has gone  *)
(* through, and every address sent is queued, held by the printing         *)
(* goroutine or printed, once.                                             *)
(***************************************************************************)
C4_EmittedExactlyOnce ==
    /\ \A w \in Workers :
          LET wk == workers[w]
              \* keys of the batch the worker is through with its send
              through == IF wk.pc \in {"none", "gen"} THEN Len(wk.batch)
                         ELSE IF "send" \in StepsDone(wk.pc) THEN wk.i + 1
                         ELSE wk.i
          IN  /\ wk.sends = IF wk.pc # "none" /\ wk.onionAddress # <<>>
                               /\ "send" \in StepsDone(wk.pc)
                               /\ MatchesAny(wk.onionAddress)
                            THEN 1 ELSE 0
              /\ wk.batchSends =
                   Cardinality({ n \in 1..through :
                                   MatchesAny(encodeTable[wk.batch[n]].ret) })
    /\ published = Len(resultChan.buf)
                     + (IF printer.pc = "print" THEN 1 ELSE 0)
                     + BagCardinality(AddressLines)

C4_Witness ==
    \E w \in Workers :
        /\ workers[w].pc = "gen" /\ workers[w].batchSends >= 1
        /\ BagCardinality(AddressLines) >= 2

(***************************************************************************)
(* C5: generated and found never decrease: every step leaves generated as  *)
(* it is or adds batchSize to it, and leaves found as it is or adds 1 to   *)
(* it; a tick of printStats changes neither.                               *)
(***************************************************************************)
C5_CountersMonotonic ==
    [][/\ generated' \in {generated, generated + batchSize}
       /\ found' \in {found, found + 1}
       /\ PrintStats => (generated' = generated /\ found' = found)]_vars

C5_Witness ==
    /\ stats.pc = "tick"
    /\ generated = 2 * batchSize
    /\ found = 2

(***************************************************************************)
(* C6: a key whose address satisfies several patterns counts once: for one *)
(* key a worker publishes at most once, starts at most one save, adds to   *)
(* found at most once and calls wg.Done() at most once, and what triggers  *)
(* them is the first pattern, in the order given, that matches.            *)
(***************************************************************************)
C6_CountsOnce ==
    \A w \in Workers :
        LET wk == workers[w]
        IN  /\ wk.sends <= 1 /\ wk.dispatches <= 1
            /\ wk.incs <= 1 /\ wk.dones <= 1
            /\ wk.j # 0 =>
                 /\ wk.j \in 1..Len(regexps)
                 /\ MatchString(regexps[wk.j], wk.onionAddress)
                 /\ \A k \in 1..(wk.j - 1) :
                       ~MatchString(regexps[k], wk.onionAddress)

C6_Witness ==
    \E w \in Workers :
        LET wk == workers[w]
        IN  /\ wk.sends = 1 /\ wk.dispatches = 1 /\ wk.incs = 1 /\ wk.dones = 1
            /\ Cardinality({ k \in 1..Len(regexps) :
                               MatchString(regexps[k], wk.onionAddress) }) >= 2

(***************************************************************************)
(* C7: a save that meets a filesystem error reports it and still signals   *)
(* its completion: the error line is on stdout, saveWg counts exactly the  *)
(* saves that have not returned, main is blocked in saveWg.Wait() only     *)
(* while some save has not returned (a failed save holds nothing up), and  *)
(* the match was published and is counted as found as for any other match. *)
(***************************************************************************)
C7_FailedSaveSignals ==
    /\ saveWg = Cardinality(InFlight)
    /\ \A id \in SaveIds :
          (saves[id].pc = "returned" /\ saves[id].err # "none") =>
              /\ CopiesIn(Line(saves[id].err, saves[id].onionAddress), stdout) >= 1
              /\ published >= id
              /\ found + Cardinality({ w \in Workers : workers[w].pc = "found" }) >= id
    /\ mainpc = "saveBlocked" => saveWg > 0

C7_Witness ==
    /\ status = "exit0"
    /\ \E id \in SaveIds : saves[id].err # "none"
    /\ \E id \in SaveIds : saves[id].err = "none"

\* worker w is in resultChan <- onionAddress and the buffer is full
BlockedOnSend(w) ==
    /\ status = "running"
    /\ workers[w].pc = "send"
    /\ ~resultChan.closed
    /\ Len(resultChan.buf) = resultChan.cap

\* worker w has a step to take (generation stops at MaxBatches batches in the
\* model only)
CanStep(w) ==
    CASE workers[w].pc = "none" -> TRUE
      [] workers[w].pc = "gen" ->
            generated < MaxBatches * batchSize => ENABLED WorkerGenerate(w)
      [] workers[w].pc = "send" -> ENABLED WorkerSend(w)
      [] workers[w].pc = "goSave" -> ENABLED WorkerGoSave(w)
      [] workers[w].pc = "found" -> ENABLED WorkerFound(w)
      [] workers[w].pc = "done" -> ENABLED WorkerDone(w)

(***************************************************************************)
(* C8: while the process runs, every worker can take its next step unless  *)
(* it is sending on resultChan with the buffer full, whatever the other    *)
(* workers are doing; and with main and the consumer scheduled fairly a    *)
(* worker blocked in the send does not stay blocked: the buffer gets room, *)
(* or the channel is closed, or the process ends.                          *)
(***************************************************************************)
C8_NoWorkerWaitsOnWorker ==
    /\ [](status = "running" =>
            \A w \in Workers : CanStep(w) \/ BlockedOnSend(w))
    /\ \A w \in Workers : BlockedOnSend(w) ~> ~BlockedOnSend(w)

C8_Witness ==
    /\ BlockedOnSend(2)
    /\ workers[1].pc = "done"

\* the command line has no pattern, or a pattern that does not compile
NoUsablePatterns ==
    \/ PatternArgs = <<>>
    \/ \E n \in 1..Len(PatternArgs) : Compile(PatternArgs[n]).err

(***************************************************************************)
(* C9: when no pattern is supplied or a supplied pattern does not compile, *)
(* main never gets past its argument checks: no worker is started, the     *)
(* generated and found counters stay 0, nothing is published, no save is   *)
(* started, the filesystem is untouched, and the process ends with exit    *)
(* status 1.                                                               *)
(***************************************************************************)
C9_AbortBeforeGeneration ==
    NoUsablePatterns =>
        /\ mainpc \in {"checkArgs", "parse", "checkRegexps"}
        /\ status \in {"running", "exit1"}
        /\ \A w \in Workers : workers[w].pc = "none"
        /\ generated = 0 /\ found = 0 /\ published = 0
        /\ resultChan.buf = <<>> /\ AddressLines = EmptyBag
        /\ saves = <<>> /\ fs = InitialFilesystem
        /\ printer.pc = "none" /\ stats.pc = "none"

C9_Witness ==
    /\ status = "exit1"
    /\ Len(regexps) = 1
    /\ Compile(osArgs[3]).err

\* the returned runs of save for address a
ReturnedSaves(a) ==
    { id \in SaveIds : saves[id].onionAddress = a /\ saves[id].pc = "returned" }

\* the filesystem after one run of save for sv, without error, from the
\* initial filesystem
AfterOneSave(sv) ==
    save(InitialFilesystem, sv, <<"ok", "ok", "ok", "ok">>).fs

(***************************************************************************)
(* C10: save is idempotent: once save has run for an address, without      *)
(* error, the directory of the address is as one run of save leaves it,    *)
(* however many times save has run for that address (its arguments being   *)
(* the same in every run).                                                 *)
(***************************************************************************)
C10_SaveIdempotent ==
    \A a \in Addresses :
        (ReturnedSaves(a) # {} /\ \A id \in ReturnedSaves(a) : saves[id].err = "none")
        => \A id \in ReturnedSaves(a) :
              /\ fs[a] = AfterOneSave(saves[id])[a]
              /\ \A id2 \in ReturnedSaves(a) :
                    /\ saves[id2].publicKey = saves[id].publicKey
                    /\ saves[id2].secretKey = saves[id].secretKey

C10_Witness ==
    \E a \in Addresses :
        /\ Cardinality(ReturnedSaves(a)) = 2
        /\ \A id \in ReturnedSaves(a) : saves[id].err = "none"
        /\ InitialFilesystem[a] = StaleDir

\* the value of a character of the lowercase base32 alphabet
CharValue(c) == (CHOOSE k \in 1..32 : lowerStd[k] = c) - 1

\* bit number b (0 first) of the bits a base32 string stands for
DecodedBit(s, b) == (CharValue(s[b \div 5 + 1]) \div (2 ^ (4 - (b % 5)))) % 2

\* the bytes a lowercase base32 string without padding decodes to
DecodeString(s) ==
    [n \in 1..((5 * Len(s)) \div 8) |->
        128 * DecodedBit(s, 8 * n - 8) + 64 * DecodedBit(s, 8 * n - 7)
          + 32 * DecodedBit(s, 8 * n - 6) + 16 * DecodedBit(s, 8 * n - 5)
          + 8 * DecodedBit(s, 8 * n - 4) + 4 * DecodedBit(s, 8 * n - 3)
          + 2 * DecodedBit(s, 8 * n - 2) + DecodedBit(s, 8 * n - 1)]

\* the address of each public key, encoded with an empty scratch buffer
AddressOf == [pk \in PublicKeys |-> encodePublicKey(pk, <<>>).ret]

(***************************************************************************)
(* C11: called with an empty scratch buffer (generateBatch resets it       *)
(* before each call), encodePublicKey returns 56 characters of the         *)
(* lowercase base32 alphabet that decode to the 35 bytes public key,       *)
(* first two bytes of Sum256(".onion checksum" || publicKey || 3), 3; the  *)
(* public key is recovered from the address, and no other public key has   *)
(* the same address.                                                       *)
(***************************************************************************)
C11_AddressFormat ==
    (encCall.calls > 0 /\ encCall.entry = <<>>) =>
        LET pk == encCall.publicKey
            a == encCall.ret
            digest == Sum256(OnionChecksumLiteral \o pk \o <<3>>)
        IN  /\ Len(a) = 56
            /\ \A n \in 1..Len(a) : \E k \in 1..32 : lowerStd[k] = a[n]
            /\ Len(DecodeString(a)) = 35
            /\ DecodeString(a) = pk \o <<digest[1], digest[2]>> \o <<3>>
            /\ SubSeq(DecodeString(a), 1, PublicKeySize) = pk
            /\ \A q \in PublicKeys : q # pk => AddressOf[q] # a

C11_Witness ==
    /\ encCall.calls = 2
    /\ encCall.entry = <<>>
    /\ encCall.publicKey = [n \in 1..PublicKeySize |-> 255]
    /\ encCall.ret[56] = "d"

SeedDigest(secretKey) == Sum512(SubSeq(secretKey, 1, SeedSize))

\* expandSecretKey of each private key
ExpansionOf == [sk \in PrivateKeys |-> expandSecretKey(sk)]

(***************************************************************************)
(* C13: expandSecretKey returns the 64-byte digest of the first 32 bytes   *)
(* of the private key with byte 0 rounded down to a multiple of 8 (low 3   *)
(* bits cleared) and byte 31 with its high bit cleared and bit 6 set; the  *)
(* other 62 bytes are those of the digest; and two private keys with the   *)
(* same first 32 bytes have the same expansion.                            *)
(***************************************************************************)
C13_ExpandClamps ==
    expCall.calls > 0 =>
        LET h == SeedDigest(expCall.secretKey)
            out == expCall.ret
        IN  /\ Len(out) = 64
            /\ out[1] % 8 = 0 /\ out[1] \div 8 = h[1] \div 8
            /\ out[32] < 128 /\ (out[32] \div 64) % 2 = 1
            /\ out[32] % 64 = h[32] % 64
            /\ \A n \in (1..64) \ {1, 32} : out[n] = h[n]
            /\ out = ExpansionOf[expCall.secretKey]
            /\ \A sk \in PrivateKeys :
                  SubSeq(sk, 1, SeedSize) = SubSeq(expCall.secretKey, 1, SeedSize)
                      => ExpansionOf[sk] = out

\* a second call, on a key whose digest has low bits set in byte 0 and, in
\* byte 31, the high bit set and bit 6 clear, and whose second half is not zero
C13_Witness ==
    /\ expCall.calls = 2
    /\ SeedDigest(expCall.secretKey)[1] % 8 # 0
    /\ SeedDigest(expCall.secretKey)[32] >= 128
    /\ (SeedDigest(expCall.secretKey)[32] \div 64) % 2 = 0
    /\ expCall.secretKey[64] # 0

\* the run of save number id returns in this step
SaveReturns(id) == saves[id].pc = "started" /\ saves'[id].pc = "returned"

\* directory d is what the layout asks for under the name a: modes 0700 and
\* 0600, the two key files with their 32-byte headers, the hostname file, and
\* the stored public key is the one the name encodes
LaidOut(d, a) ==
    LET sec == d.files["hs_ed25519_secret_key"]
        pub == d.files["hs_ed25519_public_key"]
        host == d.files["hostname"]
    IN  /\ Len(a) = 56
        /\ d.exists /\ d.perm = 448
        /\ \A f \in FileNames : d.files[f].present /\ d.files[f].perm = 384
        /\ Len(sec.data) = 96
        /\ SubSeq(sec.data, 1, 32) = SecretKeyHeader
        /\ Len(SecretKeyHeader) = 32
        /\ \A n \in 30..32 : SecretKeyHeader[n] = 0
        /\ Len(pub.data) = 64
        /\ SubSeq(pub.data, 1, 32) = PublicKeyHeader
        /\ Len(PublicKeyHeader) = 32
        /\ \A n \in 30..32 : PublicKeyHeader[n] = 0
        /\ \E k \in KeyPairs :
              /\ SubSeq(pub.data, 33, 64) = k.pub
              /\ SubSeq(sec.data, 33, 96) = expandTable[k.priv]
              /\ encodeTable[k.pub].ret = a
        /\ host.data = BytesOf(a) \o OnionSuffix

(***************************************************************************)
(* C14: when a run of save returns without error, the directory named by   *)
(* the address has mode 0700 and holds the three files with mode 0600:     *)
(* the secret key file (32-byte header, 64-byte expanded secret key), the  *)
(* public key file (32-byte header, 32-byte public key) and hostname       *)
(* (address, ".onion", newline), and the public key stored is the one the  *)
(* directory name encodes.                                                 *)
(* os.MkdirAll leaves a directory that exists as it is and os.WriteFile    *)
(* keeps the mode of a file that exists, so the modes fail when the        *)
(* directory or a file was there before.                                   *)
(***************************************************************************)
C14_SavedLayout ==
    [][\A id \in SaveIds :
          (SaveReturns(id) /\ saves'[id].err = "none")
              => LaidOut(fs'[saves[id].onionAddress], saves[id].onionAddress)]_vars

(***************************************************************************)
(* C15: once main has closed resultChan no worker sends on it: no step is  *)
(* a worker's resultChan <- onionAddress on the closed channel.            *)
(* Workers go on matching after the K-th wg.Done(), so a worker can reach  *)
(* (or already be blocked in) the send when main closes the channel, and   *)
(* this fails.                                                             *)
(***************************************************************************)
C15_NoSendAfterClose ==
    [][\A w \in Workers : ~(resultChan.closed /\ WorkerSend(w))]_vars

(***************************************************************************)
(* C16: the counter of wg never goes below 0: the workers together call    *)
(* wg.Done() at most K times.                                              *)
(* Every match calls wg.Done(), the (K+1)-th included, so this fails.      *)
(***************************************************************************)
C16_CounterNeverNegative == wg >= 0

(***************************************************************************)
(* C17: when main returns, every address sent on resultChan has been       *)
(* printed: none is still in the channel's buffer and none is held by the  *)
(* printing goroutine between its receive and its fmt.Println.             *)
(* main waits for the workers' signals and for the saves, never for the    *)
(* printing goroutine, so this fails.                                      *)
(***************************************************************************)
C17_AllPrintedAtExit ==
    status = "exit0" =>
        /\ resultChan.buf = <<>>
        /\ printer.pc # "print"
        /\ BagCardinality(AddressLines) = published

\* the number of wg.Done() calls made: what they took from the counter that
\* main set to numAddresses
DoneCalls ==
    IF mainpc \in {"checkArgs", "parse", "checkRegexps", "setup"}
    THEN 0
    ELSE numAddresses - wg

C19_SaveRegisteredBeforeSignal ==
    /\ [](\A w \in Workers :
            workers[w].pc = "done" => workers[w].dispatches = 1)
    /\ [](PastWgWait => Len(saves) >= numAddresses)
    /\ [][(mainpc \in {"saveWait", "saveBlocked"}
             /\ mainpc' \in {"return", "saveWoken"})
            => (saveWg' = 0 /\ Len(saves') >= numAddresses
                  /\ \A id \in 1..Len(saves') : saves'[id].pc = "returned")]_vars

C19_Witness ==
    /\ mainpc = "saveWoken"
    /\ numAddresses = 2
    /\ Len(saves) = 2
    /\ InFlight = {}

(***************************************************************************)
(* C20: a run of save creates the directory, writes the secret key file,   *)
(* the public key file and the hostname file in that order and stops at    *)
(* the first step that fails: it leaves the files of the later steps as    *)
(* they were and has written those of the earlier steps in full; a         *)
(* hostname file it changed comes with both key files written by the same  *)
(* run; and in every outcome it takes 1 from saveWg once, and a run that   *)
(* has returned does nothing more.                                         *)
(***************************************************************************)
C20_SaveStepOrder ==
    [][\A id \in SaveIds :
          /\ saves[id].pc = "returned" => saves'[id] = saves[id]
          /\ SaveReturns(id) =>
                LET a == saves[id].onionAddress
                    e == saves'[id].err
                    old == fs[a]
                    new == fs'[a]
                    Untouched(name) == new.files[name] = old.files[name]
                    Written(name, data) ==
                        new.files[name].present /\ new.files[name].data = data
                    Secret == Written("hs_ed25519_secret_key",
                                      SecretKeyHeader \o saves[id].secretKey)
                    Public == Written("hs_ed25519_public_key",
                                      PublicKeyHeader \o saves[id].publicKey)
                    Host == Written("hostname", BytesOf(a) \o OnionSuffix)
                IN  /\ saveWg' = saveWg - 1
                    /\ \A b \in Addresses \ {a} : fs'[b] = fs[b]
                    /\ e = "error creating directory" => new = old
                    /\ e # "error creating directory" => new.exists
                    /\ e = "error writing secret key file" =>
                          (Untouched("hs_ed25519_public_key") /\ Untouched("hostname"))
                    /\ e = "error writing public key file" =>
                          (Secret /\ Untouched("hostname"))
                    /\ e = "error writing hostname file" => (Secret /\ Public)
                    /\ e = "none" => (Secret /\ Public /\ Host)
                    /\ ~Untouched("hostname") => (Secret /\ Public)]_vars

C20_Witness ==
    \E id \in SaveIds :
        LET d == fs[saves[id].onionAddress]
        IN  /\ saves[id].pc = "returned"
            /\ saves[id].err = "error writing public key file"
            /\ d.files["hs_ed25519_secret_key"].data
                   = SecretKeyHeader \o saves[id].secretKey
            /\ d.files["hs_ed25519_public_key"].present
            /\ d.files["hs_ed25519_public_key"].data = <<>>
            /\ ~d.files["hostname"].present
            /\ saveWg = 0

=============================================================================
